---- MODULE Spec2Model ----
(***************************************************************************)
(* Scene router (src/src/scripts/router.js) and scene lifecycle / frame    *)
(* loop (src/src/scripts/scenes/xr-scene.js) of the immersive web room     *)
(* viewer, as a state machine.                                             *)
(*                                                                         *)
(* Scene instances are numbered in construction order.  The browser is     *)
(* the environment: it holds the session history, the listeners attached   *)
(* to window, the pending animation-frame callbacks of the window and of   *)
(* the XR session, and it delivers events and frames one at a time (one    *)
(* event loop, no parallel execution).                                     *)
(***************************************************************************)
EXTENDS Integers, Sequences, FiniteSets, TLC

\* ------------------------------------------------------------------ bounds
MaxScenes == 2        \* scene instances constructed in one run
MaxHistory == 2       \* entries of the session history
MaxViews == 2         \* views of a viewer pose (mono, stereo)
MaxControllers == 2   \* controller records in a scene's list
MaxPending == 3       \* callbacks waiting in the browser's lists
MaxCoord == 2         \* coordinates range over 0..MaxCoord

\* --------------------------------------------------------------- constants
NoScene == 0          \* currentScene before the first scene (undefined)
NULL == [kind |-> "null", id |-> 0]      \* frame = null
Undefined == "undefined"   \* the property key an absent oldPath turns into

Landing == "/"
RouteKeys == {"/home", "/planets", "/falling"}
Unrecognized == "/kinematics"     \* a door of the home scene leads here
Paths == {Landing} \cup RouteKeys \cup {Unrecognized}
\* the paths the runs visit: '/falling' is taken like '/planets' at every
\* step of the router, so one of the two stands for both
NavPaths == Paths \ {"/falling"}

Fields == {"a"}                   \* keys a scene keeps in its state record
Values == {1, 2}

VARIABLES
  history,          \* session history of the window, a sequence of paths
  hidx,             \* index of the current entry: location = history[hidx]
  loaded,           \* the router module has run its page-load switch
  currentScene,     \* router.js: currentScene (NoScene or an instance)
  SavedStates,      \* router.js: SavedStates, property key -> state record
  welcome,          \* the landing overlay is shown
  nScenes,          \* instances constructed so far
  cls,              \* instance -> its class
  scenePath,        \* instance -> the path it was constructed for
  departed,         \* path -> state of the scene occupying it when it left
  defaults,         \* the state record a scene's constructor leaves
  isActive,         \* instance -> XrScene.isActive
  pause,            \* instance -> XrScene.pause
  frame,            \* instance -> XrScene.frame (NULL or a handle)
  state,            \* instance -> XrScene.state
  eventListeners,   \* instance -> XrScene.eventListeners
  controllers,      \* instance -> XrScene.controllers
  graph,            \* instance -> controller parts attached to this.scene
  disposed,         \* instance -> controller parts whose resources are freed
  selected,         \* instance -> XrScene.selected (0 is null)
  buttonPressed,    \* instance -> XrScene.buttonPressed
  windowListeners,  \* listeners attached to window
  pendingFrames,    \* callbacks waiting in the window's and the session's lists
  session,          \* XR.session is set
  keyboard,         \* keyboard-controls: keyboard (a desktop client)
  controlsEnabled,  \* keyboard-controls: controls.enabled (pointer locked)
  position,         \* XrScene.position of the current scene
  controlsPosition, \* controls.getObject().position, moved by the input
  bounds,           \* XrScene.bounds
  last              \* what the most recent step did

routerVars == <<history, hidx, loaded, currentScene, SavedStates, welcome, departed,
                defaults>>
sceneVars == <<nScenes, cls, scenePath, isActive, pause, frame, state,
               eventListeners, controllers, graph, disposed, selected, buttonPressed>>
envVars == <<windowListeners, pendingFrames, session,
             keyboard, controlsEnabled>>
boundsVars == <<position, controlsPosition, bounds>>
vars == <<routerVars, sceneVars, envVars, boundsVars, last>>

Scenes == 1..nScenes
pathname == history[hidx]          \* window.location.pathname

\* ----------------------------------------------------------- state records
\* XrScene: state = {}
DefaultState == [k \in {} |-> 0]

ObjectReplace(target, source) == source

\* Object.assign(target, source): source's fields over target's
ObjectAssign(target, source) ==
  [k \in (DOMAIN target) \cup (DOMAIN source) |->
     IF k \in DOMAIN source THEN source[k] ELSE target[k]]

\* obj[key] = value
Put(obj, key, value) ==
  [k \in (DOMAIN obj) \cup {key} |-> IF k = key THEN value ELSE obj[k]]

\* ------------------------------------------------------------------ routes
RoutesNoFallback(p) ==
  CASE p = "/home" -> "HomeScene"
    [] p = "/planets" -> "PlanetsScene"
    [] p = "/falling" -> "FallingScene"
    [] OTHER -> Undefined

\* (pathname in Routes) ? Routes[pathname] : Routes['/home'], as the class
\* of the instance the getter constructs
Routes(p) ==
  CASE p = "/home" -> "HomeScene"
    [] p = "/planets" -> "PlanetsScene"
    [] p = "/falling" -> "FallingScene"
    [] OTHER -> "HomeScene"

\* --------------------------------------------------------------- listeners
Listener(type, listener) == [type |-> type, listener |-> listener]
Attached(owner, l) == [type |-> l.type, listener |-> l.listener, owner |-> owner]

\* _addEventListener(window, type, listener) of instance owner; r is the pair
\* (listeners attached to window, this.eventListeners).  The browser attaches
\* nothing when the listener is undefined; the record is pushed either way.
_addEventListener(r, owner, type, listener) ==
  [attached |-> IF listener = Undefined
                THEN r.attached
                ELSE r.attached \cup {Attached(owner, Listener(type, listener))},
   recorded |-> Append(r.recorded, Listener(type, listener))]

\* _checkForKeyboardMouse()
_checkForKeyboardMouse(r, owner, kb) ==
  IF kb
  THEN _addEventListener(
         _addEventListener(
           _addEventListener(r, owner, "mousedown", "_onMouseDown"),
           owner, "mouseup", "_onMouseUp"),
         owner, "keyup", "_onKeyUp")
  ELSE r

\* The registrations of the constructors: XrScene's, then the subclass's
\* (HomeScene registers this.onClick, which it never defines).
ConstructListeners(wl, owner, c, kb) ==
  LET base == _addEventListener(
                _checkForKeyboardMouse([attached |-> wl, recorded |-> <<>>], owner, kb),
                owner, "xrAnimate", "_restartAnimation")
  IN IF c = "HomeScene"
     THEN _addEventListener(base, owner, "mousedown", Undefined)
     ELSE base

removeEventListenersFromSecond(wl, owner, recorded) ==
  wl \ {Attached(owner, recorded[i]) : i \in 2..Len(recorded)}

\* removeEventListeners(): every recorded entry is removed from its target
removeEventListeners(wl, owner, recorded) ==
  wl \ {Attached(owner, recorded[i]) : i \in 1..Len(recorded)}

\* ------------------------------------------------------------- controllers
\* A controller record: its identity, whether it has a mesh, whether it has
\* a laser.  The parts are what scene.add / scene.remove act on.
Controller(id, mesh, laser) == [id |-> id, mesh |-> mesh, laser |-> laser]
MeshOf(c) == <<c.id, "mesh">>
LaserOf(c) == <<c.id, "laser">>
PartsOf(c) == (IF c.mesh THEN {MeshOf(c)} ELSE {}) \cup (IF c.laser THEN {LaserOf(c)} ELSE {})

\* controllers.splice(index, 1), index counted from 0
Splice(list, index) ==
  [i \in 1..(Len(list) - 1) |-> IF i <= index THEN list[i] ELSE list[i + 1]]

\* _removeController(index), index counted from 0, on r = (controllers,
\* graph, disposed, threw).  Reading controller.mesh.geometry of a record
\* without a mesh raises a TypeError after the parts have left the graph.
_removeController(r, index) ==
  LET controller == r.controllers[index + 1]
      g1 == IF controller.mesh THEN r.graph \ {MeshOf(controller)} ELSE r.graph
      g2 == IF controller.laser THEN g1 \ {LaserOf(controller)} ELSE g1
  IN IF ~controller.mesh
     THEN [r EXCEPT !.graph = g2, !.threw = TRUE]
     ELSE [controllers |-> Splice(r.controllers, index),
           graph |-> g2,
           disposed |-> r.disposed \cup {MeshOf(controller)},
           threw |-> FALSE]

\* for (let i = 0; i < this.controllers.length; i++) this._removeController(i)
RECURSIVE RemoveFrom(_, _)
RemoveFrom(r, i) ==
  IF r.threw \/ ~(i < Len(r.controllers))
  THEN r
  ELSE RemoveFrom(_removeController(r, i), i + 1)

\* _removeAllControllers()
_removeAllControllers(r) == RemoveFrom(r, 0)

\* ------------------------------------------------------------- frame loop
Handle(kind, id) == [kind |-> kind, id |-> id]
Pending(kind, id, owner) == [kind |-> kind, id |-> id, owner |-> owner]

Pose(kind, views) == [kind |-> kind, views |-> views]
NoPose == Pose("null", 0)
Poses == {Pose("pose", n) : n \in 1..MaxViews}
           \cup {NoPose, Pose("DOMException", 0), Pose("Error", 0)}

PerEyeFirstOnly(n) == IF n = 0 THEN <<>> ELSE <<"clamp", "render">>

RECURSIVE PerEye(_)
\* the body of the loop over pose.views, once per view
PerEye(n) == IF n = 0 THEN <<>> ELSE <<"clamp", "render">> \o PerEye(n - 1)

BeforeRenderPausedSkipsInput(paused, ctrl) ==
  IF paused THEN <<>>
  ELSE <<"animate">> \o (IF ctrl THEN <<"sample", "clamp">> ELSE <<>>)

\* the callback up to the session test: animate(delta) unless paused, then
\* position.copy(updatePosition()) and _testBounds when controls are enabled
BeforeRender(paused, ctrl) ==
  (IF paused THEN <<>> ELSE <<"animate">>)
    \o (IF ctrl THEN <<"sample", "clamp">> ELSE <<>>)

\* _animationCallback(timestamp, xrFrame) past its guard: pause is paused,
\* controls.enabled is ctrl, XR.session is set or not, xrFrame is given or
\* not, and getViewerPose ends as pose says.  The result: the steps taken in
\* order, the frame requested, and whether the callback threw.
ActiveCallback(paused, ctrl, sess, xrFrame, pose) ==
  LET head == BeforeRender(paused, ctrl)
  IN IF ~sess
     THEN [steps |-> head \o <<"render">>, request |-> "win", threw |-> FALSE]
     ELSE IF ~xrFrame
     THEN [steps |-> head, request |-> "xr", threw |-> FALSE]
     ELSE IF pose.kind = "Error"
     THEN [steps |-> head \o <<"getViewerPose">>, request |-> "none", threw |-> TRUE]
     ELSE IF pose.kind = "DOMException"
     THEN [steps |-> head \o <<"getViewerPose", "warn">>, request |-> "none",
           threw |-> FALSE]
     ELSE IF pose.kind = "null"
     THEN [steps |-> head \o <<"getViewerPose">>, request |-> "none", threw |-> FALSE]
     ELSE [steps |-> head \o <<"getViewerPose", "handleInteractions">>
                       \o PerEye(pose.views),
           request |-> "xr", threw |-> FALSE]

_animationCallbackUnguarded(active, paused, ctrl, sess, xrFrame, pose) ==
  ActiveCallback(paused, ctrl, sess, xrFrame, pose)

\* _animationCallback(timestamp, xrFrame) of an instance whose isActive is
\* active: an inactive instance does nothing and requests nothing.  Unless
\* the callback threw, this.frame is then set to the requested handle, or
\* to null when nothing was requested.
_animationCallback(active, paused, ctrl, sess, xrFrame, pose) ==
  IF active
  THEN ActiveCallback(paused, ctrl, sess, xrFrame, pose)
  ELSE [steps |-> <<>>, request |-> "none", threw |-> FALSE]

\* The handle a request returns.  The browser counts handles up, one count
\* per callback list; a handle matters only while its callback is pending
\* or an instance still stores it, so the model hands out the smallest
\* number of the list that is not in use in either way.
FreshId(kind, pending, held) ==
  LET used == {f.id : f \in {g \in pending : g.kind = kind}}
                \cup {h.id : h \in {g \in held : g.kind = kind}}
  IN CHOOSE n \in 1..(Cardinality(used) + 1) :
       n \notin used /\ \A m \in 1..(Cardinality(used) + 1) : m \notin used => n <= m

ScheduleClearsOnThrow(s, cb, fr, pending, held) ==
  IF cb.request \in {"win", "xr"}
  THEN LET id == FreshId(cb.request, pending, held)
       IN [frame |-> Handle(cb.request, id),
           pending |-> pending \cup {Pending(cb.request, id, s)}]
  ELSE [frame |-> NULL, pending |-> pending]

\* What a callback of instance s leaves behind: fr is this.frame before it,
\* pending the callbacks waiting, held the handles other instances store.
Schedule(s, cb, fr, pending, held) ==
  IF cb.request \in {"win", "xr"}
  THEN LET id == FreshId(cb.request, pending, held)
       IN [frame |-> Handle(cb.request, id),
           pending |-> pending \cup {Pending(cb.request, id, s)}]
  ELSE IF cb.threw
  THEN [frame |-> fr, pending |-> pending]
  ELSE [frame |-> NULL, pending |-> pending]

\* window.cancelAnimationFrame(handle): the window's list is searched by
\* the number alone
cancelAnimationFrame(pending, handle) ==
  {p \in pending : ~(p.kind = "win" /\ p.id = handle.id)}

\* ----------------------------------------------------------- step records
NoCallback == [steps |-> <<>>, request |-> "none", threw |-> FALSE]
NotSaved == "(nothing saved)"      \* the step wrote no entry of SavedStates

\* what a step did: the operation, the instance whose callback ran and
\* whether it was active, the callback's steps, the instance the router
\* switched away from, the key it saved under, the instance it constructed,
\* and how getViewerPose ended if the callback called it
Effect(op, s, wasActive, cb, from, key, created) ==
  [op |-> op, scene |-> s, wasActive |-> wasActive, steps |-> cb.steps,
   request |-> cb.request, threw |-> cb.threw,
   from |-> from, key |-> key, created |-> created, pose |-> NoPose]

Did(step) == \E i \in 1..Len(last.steps) : last.steps[i] = step

\* -------------------------------------------------------------------- Init
Vector3(x, y, z) == [x |-> x, y |-> y, z |-> z]
DefaultBound == 100

\* ------------------------------------------------------------------ bounds
Coords == 0..MaxCoord
Vectors == [x : Coords, y : Coords, z : Coords]
\* _setBounds: bound1 elements must all be greater than bound2 elements;
\* the boxes taken here have bound1 >= bound2 on each axis
Boxes == {b \in [one : Vectors, two : Vectors] :
            b.one.x >= b.two.x /\ b.one.y >= b.two.y /\ b.one.z >= b.two.z}

ClampAxisStep(v, hi, lo) == IF v > hi THEN v - 1 ELSE IF v < lo THEN v + 1 ELSE v

\* one axis of _testBounds: if (v > bound1) v = bound1; else if (v < bound2) v = bound2
ClampAxis(v, hi, lo) == IF v > hi THEN hi ELSE IF v < lo THEN lo ELSE v

_testBoundsUpperOnly(pos, box) ==
  Vector3(IF pos.x > box.one.x THEN box.one.x ELSE pos.x,
          IF pos.y > box.one.y THEN box.one.y ELSE pos.y,
          IF pos.z > box.one.z THEN box.one.z ELSE pos.z)

\* _testBounds(position) with this.bounds = box: the position it leaves
_testBounds(pos, box) ==
  Vector3(ClampAxis(pos.x, box.one.x, box.two.x),
          ClampAxis(pos.y, box.one.y, box.two.y),
          ClampAxis(pos.z, box.one.z, box.two.z))

\* before the router module runs: no scene, nothing saved, nothing pending
InitBase ==
  /\ hidx = 1
  /\ loaded = FALSE
  /\ currentScene = NoScene
  /\ SavedStates = [k \in {} |-> DefaultState]
  /\ departed = [k \in {} |-> DefaultState]
  /\ welcome = FALSE
  /\ nScenes = 0
  /\ cls = <<>> /\ scenePath = <<>> /\ isActive = <<>> /\ pause = <<>>
  /\ frame = <<>> /\ state = <<>> /\ eventListeners = <<>>
  /\ controllers = <<>> /\ graph = <<>> /\ disposed = <<>>
  /\ selected = <<>> /\ buttonPressed = <<>>
  /\ windowListeners = {}
  /\ pendingFrames = {}
  /\ session = FALSE
  /\ controlsEnabled = FALSE
  /\ last = Effect("init", NoScene, FALSE, NoCallback, NoScene, NotSaved, NoScene)

Init ==
  /\ InitBase
  /\ \E p \in NavPaths : history = <<p>>
  /\ keyboard \in BOOLEAN
  /\ defaults = DefaultState
  /\ position = Vector3(0, 0, 0)
  /\ controlsPosition = Vector3(0, 0, 0)
  /\ bounds = [one |-> Vector3(DefaultBound, DefaultBound, DefaultBound),
               two |-> Vector3(-DefaultBound, -DefaultBound, -DefaultBound)]

\* ------------------------------------------------------------------ router
DeactivateNothing(active, cur) == active

\* currentScene.isActive = false
Deactivate(active, cur) == [active EXCEPT ![cur] = FALSE]

\* SavedStates[oldPath] = currentScene.state
SaveState(saved, oldPath, st) == Put(saved, oldPath, st)

\* if (pathname in SavedStates)
\*   currentScene.state = Object.assign(currentScene.state, SavedStates[pathname])
MergeSaved(fresh, saved, p) ==
  IF p \in DOMAIN saved THEN ObjectAssign(fresh, saved[p]) ELSE fresh

IsLandingNever(p) == FALSE

\* if (pathname === '/')
IsLanding(p) == p = Landing

\* navigateToScene(pathname, oldPath): p is the new path; op names the
\* caller.  A scene constructed here is instance nScenes + 1; constructing
\* it resets the controls object's position where there are controls,
\* starts from position (0, 0, 0) and the default bounds and runs the
\* constructors' registrations, and startAnimation() runs its first
\* callback, with no arguments: what that callback samples and clamps is
\* the origin, inside the default bounds.
navigateToScene(p, oldPath, op) ==
  LET cur == currentScene
      was == cur # NoScene
      leaving == was /\ isActive[cur]
      act == IF was THEN Deactivate(isActive, cur) ELSE isActive
      saved == IF was THEN SaveState(SavedStates, oldPath, state[cur]) ELSE SavedStates
      wl == IF was
            THEN removeEventListeners(windowListeners, cur, eventListeners[cur])
            ELSE windowListeners
      dep == IF leaving THEN Put(departed, scenePath[cur], state[cur]) ELSE departed
      from == IF leaving THEN cur ELSE NoScene
      key == IF was THEN oldPath ELSE NotSaved
  IN IF IsLanding(p)
     THEN /\ welcome' = TRUE
          /\ isActive' = act
          /\ SavedStates' = saved
          /\ windowListeners' = wl
          /\ departed' = dep
          /\ last' = Effect(op, NoScene, FALSE, NoCallback, from, key, NoScene)
          /\ UNCHANGED <<currentScene, nScenes, cls, scenePath, pause, frame, state,
                         eventListeners, controllers, graph, disposed, selected,
                         buttonPressed, pendingFrames, boundsVars>>
     ELSE LET s == nScenes + 1
              c == Routes(p)
              reg == ConstructListeners(wl, s, c, keyboard)
              cb == _animationCallback(TRUE, FALSE, controlsEnabled, session, FALSE, NoPose)
              sch == Schedule(s, cb, NULL, pendingFrames, {frame[i] : i \in Scenes})
          IN /\ nScenes < MaxScenes
             /\ Cardinality(pendingFrames) < MaxPending
             /\ welcome' = FALSE
             /\ currentScene' = s
             /\ nScenes' = s
             /\ cls' = cls @@ (s :> c)
             /\ scenePath' = scenePath @@ (s :> p)
             /\ isActive' = act @@ (s :> TRUE)
             /\ pause' = pause @@ (s :> FALSE)
             /\ state' = state @@ (s :> MergeSaved(defaults, saved, p))
             /\ eventListeners' = eventListeners @@ (s :> reg.recorded)
             /\ windowListeners' = reg.attached
             /\ controllers' = controllers @@ (s :> <<>>)
             /\ graph' = graph @@ (s :> {})
             /\ disposed' = disposed @@ (s :> {})
             /\ selected' = selected @@ (s :> 0)
             /\ buttonPressed' = buttonPressed @@ (s :> FALSE)
             /\ frame' = frame @@ (s :> sch.frame)
             /\ pendingFrames' = sch.pending
             /\ SavedStates' = saved
             /\ departed' = dep
             /\ position' = Vector3(0, 0, 0)
             /\ controlsPosition' = IF keyboard THEN Vector3(0, 0, 0)
                                    ELSE controlsPosition
             /\ bounds' = [one |-> Vector3(DefaultBound, DefaultBound, DefaultBound),
                           two |-> Vector3(-DefaultBound, -DefaultBound, -DefaultBound)]
             /\ last' = Effect(op, s, TRUE, cb, from, key, s)

\* navigateToScene(window.location.pathname) as the module is loaded
PageLoad ==
  /\ ~loaded
  /\ loaded' = TRUE
  /\ navigateToScene(pathname, Undefined, "load")
  /\ UNCHANGED <<history, hidx, defaults, session, keyboard, controlsEnabled>>

\* navigate(newPath): pushState drops the entries after the current one
navigate(newPath) ==
  /\ loaded
  /\ hidx < MaxHistory
  /\ history' = Append(SubSeq(history, 1, hidx), newPath)
  /\ hidx' = hidx + 1
  /\ navigateToScene(newPath, pathname, "navigate")
  /\ UNCHANGED <<loaded, defaults, session, keyboard, controlsEnabled>>

\* window.onpopstate after the browser moved by d entries (back, forward):
\* navigateToScene(window.location.pathname), with no oldPath
onpopstate(d) ==
  /\ loaded
  /\ hidx + d \in 1..Len(history)
  /\ hidx' = hidx + d
  /\ navigateToScene(history[hidx + d], Undefined, "popstate")
  /\ UNCHANGED <<history, loaded, defaults, session, keyboard, controlsEnabled>>

\* -------------------------------------------------------------- callbacks
\* Instance s runs _animationCallback from the pending set pf, with the
\* frame handle fr stored; op names what invoked it.  With controls
\* enabled this.position takes a copy of what updatePosition() returns and
\* the controls object's position is clamped; with a pose this.position is
\* clamped for each eye (in a magic window the touch input is copied into
\* this.position first, and the same clamp follows).
RunCallback(op, s, xrFrame, pose, fr, pf) ==
  LET cb == _animationCallback(isActive[s], pause[s], controlsEnabled, session,
                               xrFrame, pose)
      sch == Schedule(s, cb, fr, pf, {frame[i] : i \in Scenes \ {s}})
      sampled == \E i \in 1..Len(cb.steps) : cb.steps[i] = "sample"
      posed == \E i \in 1..Len(cb.steps) : cb.steps[i] = "render" /\ session
      copied == IF sampled THEN controlsPosition ELSE position
  IN /\ cb.request # "none" => Cardinality(pf) < MaxPending
     /\ frame' = [frame EXCEPT ![s] = sch.frame]
     /\ pendingFrames' = sch.pending
     /\ controlsPosition' = IF sampled THEN _testBounds(controlsPosition, bounds)
                            ELSE controlsPosition
     /\ position' = IF posed THEN _testBounds(copied, bounds) ELSE copied
     /\ last' = [Effect(op, s, isActive[s], cb, NoScene, NotSaved, NoScene)
                   EXCEPT !.pose = IF isActive[s] /\ session /\ xrFrame
                                   THEN pose ELSE NoPose]

\* the window runs a pending callback: a timestamp, no xrFrame
WindowFrame(f) ==
  /\ f \in pendingFrames /\ f.kind = "win"
  /\ RunCallback("winFrame", f.owner, FALSE, NoPose, frame[f.owner],
                 pendingFrames \ {f})
  /\ UNCHANGED <<routerVars, nScenes, cls, scenePath, isActive, pause, state,
                 eventListeners, controllers, graph, disposed, selected,
                 buttonPressed, windowListeners, session, keyboard,
                 controlsEnabled, bounds>>

\* the XR session runs a pending callback with an xrFrame, whose
\* getViewerPose ends as pose says
XRFrame(f, pose) ==
  /\ f \in pendingFrames /\ f.kind = "xr"
  /\ session
  /\ RunCallback("xrFrame", f.owner, TRUE, pose, frame[f.owner],
                 pendingFrames \ {f})
  /\ UNCHANGED <<routerVars, nScenes, cls, scenePath, isActive, pause, state,
                 eventListeners, controllers, graph, disposed, selected,
                 buttonPressed, windowListeners, session, keyboard,
                 controlsEnabled, bounds>>

\* startAnimation() called again on an instance whose loop has stopped
startAnimation(s) ==
  /\ s \in Scenes
  /\ \A f \in pendingFrames : f.owner # s
  /\ RunCallback("startAnimation", s, FALSE, NoPose, frame[s], pendingFrames)
  /\ UNCHANGED <<routerVars, nScenes, cls, scenePath, isActive, pause, state,
                 eventListeners, controllers, graph, disposed, selected,
                 buttonPressed, windowListeners, session, keyboard,
                 controlsEnabled, bounds>>

\* _restartAnimation of instance s
_restartAnimation(s) ==
  LET pf == IF frame[s] # NULL
            THEN cancelAnimationFrame(pendingFrames, frame[s])
            ELSE pendingFrames
      rem == _removeAllControllers([controllers |-> controllers[s],
                                    graph |-> graph[s],
                                    disposed |-> disposed[s],
                                    threw |-> FALSE])
  IN /\ controllers' = [controllers EXCEPT ![s] = rem.controllers]
     /\ graph' = [graph EXCEPT ![s] = rem.graph]
     /\ disposed' = [disposed EXCEPT ![s] = rem.disposed]
     /\ IF rem.threw
        THEN /\ pendingFrames' = pf
             /\ last' = Effect("xrAnimate", s, isActive[s],
                               [NoCallback EXCEPT !.threw = TRUE],
                               NoScene, NotSaved, NoScene)
             /\ UNCHANGED <<frame, position, controlsPosition>>
        ELSE RunCallback("xrAnimate", s, FALSE, NoPose, frame[s], pf)

\* an 'xrAnimate' event on window reaches the listener attached for it
xrAnimate(l) ==
  /\ l \in windowListeners
  /\ l.type = "xrAnimate" /\ l.listener = "_restartAnimation"
  /\ _restartAnimation(l.owner)
  /\ UNCHANGED <<routerVars, nScenes, cls, scenePath, isActive, pause, state,
                 eventListeners, selected, buttonPressed, windowListeners,
                 session, keyboard, controlsEnabled, bounds>>

\* toggleAnimation()
toggleAnimation(paused) == IF paused THEN FALSE ELSE TRUE

\* a 'keyup' event with keyCode 70 reaches _onKeyUp
keyup(l) ==
  /\ l \in windowListeners
  /\ l.type = "keyup" /\ l.listener = "_onKeyUp"
  /\ pause' = [pause EXCEPT ![l.owner] = toggleAnimation(@)]
  /\ last' = Effect("keyup", l.owner, isActive[l.owner], NoCallback,
                    NoScene, NotSaved, NoScene)
  /\ UNCHANGED <<routerVars, nScenes, cls, scenePath, isActive, frame, state,
                 eventListeners, controllers, graph, disposed, selected,
                 buttonPressed, envVars, boundsVars>>

\* a 'mousedown' event reaches _onMouseDown
mousedown(l) ==
  /\ l \in windowListeners
  /\ l.type = "mousedown" /\ l.listener = "_onMouseDown"
  /\ buttonPressed' = IF controlsEnabled
                      THEN [buttonPressed EXCEPT ![l.owner] = TRUE]
                      ELSE buttonPressed
  /\ last' = Effect("mousedown", l.owner, isActive[l.owner], NoCallback,
                    NoScene, NotSaved, NoScene)
  /\ UNCHANGED <<routerVars, nScenes, cls, scenePath, isActive, pause, frame, state,
                 eventListeners, controllers, graph, disposed, selected,
                 envVars, boundsVars>>

\* a 'mouseup' event reaches _onMouseUp; the step "release" is the call of
\* selected.onTriggerRelease()
mouseup(l) ==
  /\ l \in windowListeners
  /\ l.type = "mouseup" /\ l.listener = "_onMouseUp"
  /\ IF controlsEnabled
     THEN /\ selected' = [selected EXCEPT ![l.owner] = 0]
          /\ buttonPressed' = [buttonPressed EXCEPT ![l.owner] = FALSE]
          /\ last' = Effect("mouseup", l.owner, isActive[l.owner],
                            [NoCallback EXCEPT !.steps =
                               IF selected[l.owner] # 0 THEN <<"release">> ELSE <<>>],
                            NoScene, NotSaved, NoScene)
     ELSE /\ UNCHANGED <<selected, buttonPressed>>
          /\ last' = Effect("mouseup", l.owner, isActive[l.owner], NoCallback,
                            NoScene, NotSaved, NoScene)
  /\ UNCHANGED <<routerVars, nScenes, cls, scenePath, isActive, pause, frame, state,
                 eventListeners, controllers, graph, disposed, envVars, boundsVars>>

\* ------------------------------------------------------------- environment
\* the concrete scene writes a field of its state record while it runs
SetState(k, v) ==
  /\ currentScene # NoScene /\ isActive[currentScene]
  /\ state' = [state EXCEPT ![currentScene] = Put(@, k, v)]
  /\ last' = Effect("setState", currentScene, TRUE, NoCallback,
                    NoScene, NotSaved, NoScene)
  /\ UNCHANGED <<routerVars, nScenes, cls, scenePath, isActive, pause, frame,
                 eventListeners, controllers, graph, disposed, selected,
                 buttonPressed, envVars, boundsVars>>

\* the concrete scene removes a field from its state record
DeleteState(k) ==
  /\ currentScene # NoScene /\ isActive[currentScene]
  /\ k \in DOMAIN state[currentScene]
  /\ state' = [state EXCEPT ![currentScene] =
                 [j \in (DOMAIN @) \ {k} |-> @[j]]]
  /\ last' = Effect("deleteState", currentScene, TRUE, NoCallback,
                    NoScene, NotSaved, NoScene)
  /\ UNCHANGED <<routerVars, nScenes, cls, scenePath, isActive, pause, frame,
                 eventListeners, controllers, graph, disposed, selected,
                 buttonPressed, envVars, boundsVars>>

\* an XR session starts on the loaded page: XR.session is set, its
\* callback list is empty
SessionStart ==
  /\ loaded
  /\ ~session
  /\ session' = TRUE
  /\ last' = Effect("sessionStart", NoScene, FALSE, NoCallback,
                    NoScene, NotSaved, NoScene)
  /\ UNCHANGED <<routerVars, sceneVars, windowListeners, pendingFrames,
                 keyboard, controlsEnabled, boundsVars>>

\* the XR session ends: XR.session is cleared, and the callbacks still in
\* the session's list are never run
SessionEnd ==
  /\ session
  /\ session' = FALSE
  /\ pendingFrames' = {f \in pendingFrames : f.kind # "xr"}
  /\ last' = Effect("sessionEnd", NoScene, FALSE, NoCallback,
                    NoScene, NotSaved, NoScene)
  /\ UNCHANGED <<routerVars, sceneVars, windowListeners,
                 keyboard, controlsEnabled, boundsVars>>

\* an input source connects: its record joins the active scene's list and
\* its mesh, and its laser if it has one, join the scene graph
AddController(mesh, laser) ==
  /\ session
  /\ currentScene # NoScene /\ isActive[currentScene]
  /\ Len(controllers[currentScene]) < MaxControllers
  /\ LET s == currentScene
         used == {controllers[s][i].id : i \in 1..Len(controllers[s])}
         id == CHOOSE n \in 1..MaxControllers :
                 n \notin used /\ \A m \in 1..MaxControllers : m \notin used => n <= m
         c == Controller(id, mesh, laser)
     IN /\ controllers' = [controllers EXCEPT ![s] = Append(@, c)]
        /\ graph' = [graph EXCEPT ![s] = @ \cup PartsOf(c)]
        /\ disposed' = [disposed EXCEPT ![s] = @ \ {MeshOf(c), LaserOf(c)}]
        /\ last' = Effect("addController", s, TRUE, NoCallback,
                          NoScene, NotSaved, NoScene)
  /\ UNCHANGED <<routerVars, nScenes, cls, scenePath, isActive, pause, frame, state,
                 eventListeners, selected, buttonPressed, envVars, boundsVars>>

\* the pointer is locked or released: controls.enabled changes
PointerLock ==
  /\ keyboard
  /\ controlsEnabled' = ~controlsEnabled
  /\ last' = Effect("pointerLock", NoScene, FALSE, NoCallback,
                    NoScene, NotSaved, NoScene)
  /\ UNCHANGED <<routerVars, sceneVars, windowListeners, pendingFrames,
                 session, keyboard, boundsVars>>

\* the interaction dispatcher selects a trigger object on a press
Select ==
  /\ currentScene # NoScene /\ isActive[currentScene]
  /\ buttonPressed[currentScene]
  /\ selected[currentScene] = 0
  /\ selected' = [selected EXCEPT ![currentScene] = 1]
  /\ last' = Effect("select", currentScene, TRUE, NoCallback,
                    NoScene, NotSaved, NoScene)
  /\ UNCHANGED <<routerVars, nScenes, cls, scenePath, isActive, pause, frame, state,
                 eventListeners, controllers, graph, disposed, buttonPressed,
                 envVars, boundsVars>>

\* an input source disconnects: _removeController(index) on the active scene
removeController(index) ==
  /\ currentScene # NoScene /\ isActive[currentScene]
  /\ index < Len(controllers[currentScene])
  /\ LET s == currentScene
         rem == _removeController([controllers |-> controllers[s],
                                   graph |-> graph[s],
                                   disposed |-> disposed[s],
                                   threw |-> FALSE], index)
     IN /\ controllers' = [controllers EXCEPT ![s] = rem.controllers]
        /\ graph' = [graph EXCEPT ![s] = rem.graph]
        /\ disposed' = [disposed EXCEPT ![s] = rem.disposed]
        /\ last' = Effect("removeController", s, TRUE,
                          [NoCallback EXCEPT !.threw = rem.threw],
                          NoScene, NotSaved, NoScene)
  /\ UNCHANGED <<routerVars, nScenes, cls, scenePath, isActive, pause, frame, state,
                 eventListeners, selected, buttonPressed, envVars, boundsVars>>

\* ------------------------------------------------------------ clamp alone
\* the input moves the controls object by one unit along one axis; the
\* next callback's updatePosition() returns where it stands
MoveControls(axis, d) ==
  /\ controlsEnabled
  /\ currentScene # NoScene /\ isActive[currentScene]
  /\ controlsPosition[axis] + d \in Coords
  /\ controlsPosition' = [controlsPosition EXCEPT ![axis] = @ + d]
  /\ last' = Effect("moveControls", NoScene, FALSE, NoCallback,
                    NoScene, NotSaved, NoScene)
  /\ UNCHANGED <<routerVars, sceneVars, envVars, position, bounds>>

\* the concrete scene calls _setBounds(bound1, bound2) with a cube
CubeBoxes == {b \in Boxes : b.one.x = b.one.y /\ b.one.y = b.one.z
                            /\ b.two.x = b.two.y /\ b.two.y = b.two.z}

_setBounds(box) ==
  /\ currentScene # NoScene /\ isActive[currentScene]
  /\ bounds' = box
  /\ last' = Effect("setBounds", currentScene, TRUE, NoCallback,
                    NoScene, NotSaved, NoScene)
  /\ UNCHANGED <<routerVars, sceneVars, envVars, position, controlsPosition>>

\* a scene with its bounds set and a position anywhere
InitBounds ==
  /\ InitBase
  /\ history = <<"/home">>
  /\ keyboard = TRUE
  /\ defaults = DefaultState
  /\ position \in Vectors
  /\ controlsPosition = Vector3(0, 0, 0)
  /\ bounds \in Boxes

\* the position moves one unit along one axis (input)
Move(axis, d) ==
  /\ position[axis] + d \in Coords
  /\ position' = [position EXCEPT ![axis] = @ + d]
  /\ last' = Effect("move", NoScene, FALSE, NoCallback, NoScene, NotSaved, NoScene)
  /\ UNCHANGED <<routerVars, sceneVars, envVars, controlsPosition, bounds>>

\* this._testBounds(position); the steps name the axes it changed
TestBounds ==
  /\ position' = _testBounds(position, bounds)
  /\ last' = Effect("testBounds", NoScene, FALSE,
                    [NoCallback EXCEPT !.steps =
                       SelectSeq(<<"x", "y", "z">>,
                                 LAMBDA a : _testBounds(position, bounds)[a] # position[a])],
                    NoScene, NotSaved, NoScene)
  /\ UNCHANGED <<routerVars, sceneVars, envVars, controlsPosition, bounds>>

\* ---------------------------------------------------------- specifications
\* navigation in a browser without XR: page load, navigate, back/forward,
\* window frames, the scene writing its state
Next ==
  \/ PageLoad
  \/ \E p \in NavPaths : navigate(p)
  \/ \E d \in {-1, 1} : onpopstate(d)
  \/ \E f \in pendingFrames : WindowFrame(f)
  \/ \E k \in Fields, v \in Values : SetState(k, v)

\* a desktop client: keyboard-controls found a keyboard
Desktop == Init /\ keyboard

Spec == Desktop /\ [][Next]_vars

\* the frame loop with XR sessions coming and going, the restart signal,
\* and a switch that deactivates the scene
NextLoop ==
  \/ PageLoad
  \/ \E p \in {Landing, "/home"} : navigate(p)
  \/ SessionStart
  \/ SessionEnd
  \/ \E l \in windowListeners : xrAnimate(l)
  \/ \E f \in pendingFrames : WindowFrame(f)
  \/ \E f \in pendingFrames, pose \in Poses : XRFrame(f, pose)
  \/ \E s \in Scenes : startAnimation(s)

\* a desktop client opening the page on '/home'
DesktopHome == Desktop /\ history = <<"/home">>

SpecLoop == DesktopHome /\ [][NextLoop]_vars

\* The browser runs every callback waiting in the window's list at the next
\* display refresh, and every callback waiting in the session's list at
\* the session's next frame unless the session ends first: an instance
\* with callbacks waiting gets one of them run.
WindowFrameOf(s) == \E f \in pendingFrames : f.owner = s /\ WindowFrame(f)
XRFrameOf(s) == \E f \in pendingFrames, pose \in Poses : f.owner = s /\ XRFrame(f, pose)

\* the frame loop as the browser drives it, without the restart signal:
\* frames requested by the callback itself and by startAnimation
NextHalt ==
  \/ PageLoad
  \/ \E p \in {Landing, "/home"} : navigate(p)
  \/ SessionStart
  \/ SessionEnd
  \/ \E f \in pendingFrames : WindowFrame(f)
  \/ \E f \in pendingFrames, pose \in Poses : XRFrame(f, pose)
  \/ \E s \in Scenes : startAnimation(s)

SpecHalt == DesktopHome /\ [][NextHalt]_vars

SpecHaltFair ==
  /\ SpecHalt
  /\ \A s \in 1..MaxScenes : WF_vars(WindowFrameOf(s)) /\ WF_vars(XRFrameOf(s))

\* a scene whose constructor fills its state record with defaults, writing
\* and removing fields of the record, left and entered again
DefaultFields == {"a", "b"}
StateRecords == UNION {[D -> Values] : D \in SUBSET DefaultFields}

InitMerge ==
  /\ InitBase
  /\ history = <<"/planets">>
  /\ keyboard = TRUE
  /\ defaults \in StateRecords
  /\ position = Vector3(0, 0, 0)
  /\ controlsPosition = Vector3(0, 0, 0)
  /\ bounds = [one |-> Vector3(DefaultBound, DefaultBound, DefaultBound),
               two |-> Vector3(-DefaultBound, -DefaultBound, -DefaultBound)]

NextMerge ==
  \/ PageLoad
  \/ \E p \in {Landing, "/planets"} : navigate(p)
  \/ \E d \in {-1, 1} : onpopstate(d)
  \/ \E k \in DefaultFields, v \in Values : SetState(k, v)
  \/ \E k \in DefaultFields : DeleteState(k)

SpecMerge == InitMerge /\ [][NextMerge]_vars

\* one scene's frame callbacks on a desktop client, with the F key, the
\* pointer lock, XR sessions and the restart signal
NextFrame ==
  \/ PageLoad
  \/ PointerLock
  \/ SessionStart
  \/ SessionEnd
  \/ \E l \in windowListeners : keyup(l)
  \/ \E l \in windowListeners : xrAnimate(l)
  \/ \E f \in pendingFrames : WindowFrame(f)
  \/ \E f \in pendingFrames, pose \in Poses : XRFrame(f, pose)
  \/ \E s \in Scenes : startAnimation(s)

SpecFrame == DesktopHome /\ [][NextFrame]_vars

\* controllers connecting and disconnecting, and the restart signal
NextCtrl ==
  \/ PageLoad
  \/ SessionStart
  \/ SessionEnd
  \/ \E mesh, laser \in BOOLEAN : (mesh \/ laser) /\ AddController(mesh, laser)
  \/ \E i \in 0..(MaxControllers - 1) : removeController(i)
  \/ \E l \in windowListeners : xrAnimate(l)

SpecCtrl == DesktopHome /\ [][NextCtrl]_vars

\* events on window, on any client
NextInput ==
  \/ PageLoad
  \/ \E p \in NavPaths : navigate(p)
  \/ \E d \in {-1, 1} : onpopstate(d)
  \/ PointerLock
  \/ Select
  \/ \E l \in windowListeners : keyup(l)
  \/ \E l \in windowListeners : mousedown(l)
  \/ \E l \in windowListeners : mouseup(l)
  \/ \E l \in windowListeners : xrAnimate(l)

SpecInput == Init /\ [][NextInput]_vars

\* the clamp inside one scene's frame callbacks: the scene sets its bounds,
\* the input moves the controls object across them along one axis, frames
\* sample and clamp; before the page is loaded, the clamp on any position
\* and box
NextClamp ==
  \/ PageLoad
  \/ PointerLock
  \/ SessionStart
  \/ \E box \in CubeBoxes : _setBounds(box)
  \/ \E d \in {-1, 1} : MoveControls("x", d)
  \/ \E f \in pendingFrames : WindowFrame(f)
  \/ \E f \in pendingFrames, pose \in Poses : XRFrame(f, pose)
  \/ TestBounds

SpecClamp == InitBounds /\ [][NextClamp]_vars

\* the clamp on its own
NextBounds ==
  \/ \E axis \in {"x", "y", "z"}, d \in {-1, 1} : Move(axis, d)
  \/ TestBounds

SpecBounds == InitBounds /\ [][NextBounds]_vars

\* ------------------------------------------------------------------ claims
ActiveScenes == {s \in Scenes : isActive[s]}
PendingOf(s) == {f \in pendingFrames : f.owner = s}
Switched == last.op \in {"load", "navigate", "popstate"}

\* C1: in every reachable state at most one scene instance has
\* isActive = true, whatever the sequence of page load, navigate(path) and
\* back/forward steps.
C1_AtMostOneActive == Cardinality(ActiveScenes) <= 1

\* C1 witness: a switch has just deactivated one instance and started
\* another.
C1_Witness ==
  /\ Switched
  /\ last.from # NoScene /\ last.created # NoScene
  /\ ~isActive[last.from] /\ isActive[last.created]

\* C2 (as claimed): the scene started on a path has every field that the
\* scene occupying that path had when it was last deactivated, with the
\* same value, whether the switches were navigate(path) calls or
\* back/forward steps.
C2_RestoresOnReturn ==
  \A s \in Scenes :
    (Switched /\ last.created = s /\ scenePath[s] \in DOMAIN departed) =>
      \A k \in DOMAIN departed[scenePath[s]] :
        k \in DOMAIN state[s] /\ state[s][k] = departed[scenePath[s]][k]

\* C9 (as claimed): after every switch that deactivates a scene, the
\* Saved State Table holds that scene's state under the path the scene was
\* occupying, for navigate(path) and for back/forward alike.
C9_SavedUnderOutgoingPath ==
  (Switched /\ last.from # NoScene) =>
    /\ scenePath[last.from] \in DOMAIN SavedStates
    /\ SavedStates[scenePath[last.from]] = state[last.from]

\* C3 (as claimed): when _removeAllControllers has run (the restart signal
\* runs it) without throwing, the controller list is empty and no
\* controller mesh or laser is attached to the scene graph.
C3_RemoveAllEmpties ==
  (last.op = "xrAnimate" /\ ~last.threw) =>
    /\ controllers[last.scene] = <<>>
    /\ graph[last.scene] = {}

\* C4 (as claimed): no instance ever has more than one frame callback
\* pending, and right after the restart signal was handled by an active
\* instance exactly one is pending.
C4_OnePendingFrame ==
  /\ \A s \in Scenes : Cardinality(PendingOf(s)) <= 1
  /\ (last.op = "xrAnimate" /\ last.wasActive) =>
       Cardinality(PendingOf(last.scene)) = 1

\* C5 (as claimed): an XR frame callback of an active instance whose pose
\* acquisition ended with the DOMException or with no pose renders nothing
\* and requests the next XR-session frame.
C5_PoseFailureContinues ==
  (/\ last.op = "xrFrame" /\ last.wasActive
   /\ Did("getViewerPose") /\ ~Did("handleInteractions") /\ ~last.threw) =>
    /\ ~Did("render")
    /\ last.request = "xr"
    /\ \E f \in PendingOf(last.scene) : Handle(f.kind, f.id) = frame[last.scene]

C6_Halts ==
  (last.op \in {"winFrame", "xrFrame", "startAnimation"} /\ ~last.wasActive) =>
    /\ last.steps = <<>>
    /\ last.request = "none"
    /\ frame[last.scene] = NULL

C6_StaysHalted ==
  \A s \in Scenes :
    ~isActive[s] => (~isActive'[s] /\ PendingOf(s)' \subseteq PendingOf(s))

\* C6: a callback of a deactivated instance (a pending window frame, a
\* pending XR frame, a direct startAnimation call) takes no step (no animate,
\* no render), requests no frame and sets the stored handle to null; a
\* deactivated instance stays deactivated and gains no pending callback;
\* and eventually it has none pending.
C6_DeactivatedLoopHalts ==
  /\ []C6_Halts
  /\ [][C6_StaysHalted]_vars
  /\ \A s \in 1..MaxScenes :
       (s \in Scenes /\ ~isActive[s]) ~> (s \in Scenes /\ PendingOf(s) = {})

\* C6 witness: an XR frame has fired on a deactivated instance, which is
\* left with no pending callback.
C6_Witness ==
  /\ last.op = "xrFrame" /\ ~last.wasActive
  /\ ~isActive[last.scene]
  /\ PendingOf(last.scene) = {}

\* C7: right after _testBounds(position) on a box with bounds.one >=
\* bounds.two on each axis, applying _testBounds again leaves the position
\* as it is.
C7_TestBoundsIdempotent ==
  last.op = "testBounds" => _testBounds(position, bounds) = position

\* C7 witness: _testBounds has just changed the position on some axis.
C7_Witness == last.op = "testBounds" /\ last.steps # <<>>

\* C8: every listener attached to window belongs to an active instance and
\* is in that instance's recorded list, so once removeEventListeners() has
\* run on an instance none of its listeners is attached, and every
\* xrAnimate, key or mouse event is handled by an active instance.
C8_NoListenerOutlives ==
  /\ \A l \in windowListeners :
       /\ isActive[l.owner]
       /\ \E i \in 1..Len(eventListeners[l.owner]) :
            eventListeners[l.owner][i] = Listener(l.type, l.listener)
  /\ last.op \in {"keyup", "mousedown", "mouseup", "xrAnimate"} => last.wasActive

\* C8 witness: a switch has just run removeEventListeners() on an instance
\* that had registered its mouse, key and restart listeners.
C8_Witness ==
  /\ Switched /\ last.from # NoScene
  /\ Len(eventListeners[last.from]) >= 4
  /\ \A l \in windowListeners : l.owner # last.from

\* C10: a switch to a path that is neither '/' nor a key of Routes
\* constructs a fresh HomeScene, makes it the current scene, leaves it
\* active with the landing overlay hidden, and starts its loop: its first
\* callback has run without throwing and its frame request is pending.
C10_UnrecognizedFallsBack ==
  \A s \in Scenes :
    (Switched /\ last.created = s /\ scenePath[s] \notin RouteKeys) =>
      /\ cls[s] = Routes("/home")
      /\ currentScene = s /\ isActive[s] /\ ~welcome
      /\ ~last.threw /\ last.request # "none"
      /\ frame[s] # NULL
      /\ \E f \in PendingOf(s) : Handle(f.kind, f.id) = frame[s]
      /\ eventListeners[s] = ConstructListeners({}, s, Routes("/home"), keyboard).recorded

\* C10 witness: navigate('/kinematics') has just started a scene.
C10_Witness ==
  /\ last.op = "navigate" /\ last.created # NoScene
  /\ scenePath[last.created] = Unrecognized
  /\ isActive[last.created]

\* C11: after a switch to the landing path '/' the landing overlay is shown,
\* no instance is active, the current scene (if any) has none of its
\* listeners attached, and the switch constructed no instance, ran no
\* callback and requested no frame.
C11_LandingActivatesNothing ==
  (Switched /\ pathname = Landing) =>
    /\ welcome
    /\ ActiveScenes = {}
    /\ \A l \in windowListeners : l.owner # currentScene
    /\ last.created = NoScene
    /\ last.steps = <<>> /\ last.request = "none"

\* C11 witness: navigate('/') has just deactivated a running scene.
C11_Witness ==
  /\ last.op = "navigate" /\ pathname = Landing
  /\ last.from # NoScene /\ ~isActive[last.from]

\* the most recent step ran _animationCallback on an instance that was
\* active: a frame of the window or of the session, startAnimation (the
\* router's call included), or the restart signal
RanActiveCallback ==
  /\ last.op \in {"load", "navigate", "popstate", "winFrame", "xrFrame",
                  "startAnimation", "xrAnimate"}
  /\ last.scene # NoScene /\ last.wasActive
  /\ ~(last.op = "xrAnimate" /\ last.threw)

\* what the same callback does with the pause flag clear
Unpaused ==
  ActiveCallback(FALSE, controlsEnabled, session, last.op = "xrFrame", last.pose)

C12_PausedFrame ==
  RanActiveCallback =>
    /\ last.request = Unpaused.request /\ last.threw = Unpaused.threw
    /\ IF pause[last.scene]
       THEN ~Did("animate") /\ <<"animate">> \o last.steps = Unpaused.steps
       ELSE last.steps = Unpaused.steps
    /\ toggleAnimation(toggleAnimation(pause[last.scene])) = pause[last.scene]

C12_Toggles ==
  \A s \in Scenes :
    (last'.op = "keyup" /\ last'.scene = s) => pause'[s] = ~pause[s]

\* C12: a callback of an active instance whose pause flag is set does not
\* call animate and otherwise takes the steps, in the same order, and
\* requests the frame that it does with the flag clear; the F key flips the
\* flag, and flipping it twice gives the flag back.
C12_PauseSuppressesAnimateOnly ==
  /\ []C12_PausedFrame
  /\ [][C12_Toggles]_vars

\* C12 witness: a window frame of a paused instance with controls enabled
\* has sampled and clamped the position and rendered.
C12_Witness ==
  /\ last.op = "winFrame" /\ last.wasActive
  /\ pause[last.scene] /\ controlsEnabled
  /\ Did("clamp") /\ Did("render")
  /\ last.request = "win"

\* C13: a scene started on a path that has a saved record holds the fields
\* of its constructor's defaults and of the record together: a default
\* field the record lacks keeps its default value, and every field of the
\* record has the record's value.
C13_MergedOverDefaults ==
  \A s \in Scenes :
    (Switched /\ last.created = s /\ scenePath[s] \in DOMAIN SavedStates) =>
      LET record == SavedStates[scenePath[s]]
      IN /\ DOMAIN state[s] = (DOMAIN defaults) \cup (DOMAIN record)
         /\ \A k \in (DOMAIN defaults) \ (DOMAIN record) : state[s][k] = defaults[k]
         /\ \A k \in DOMAIN record : state[s][k] = record[k]

\* C13 witness: a scene has just been started over a record that lacks one
\* of the defaults and differs from another.
C13_Witness ==
  \E s \in Scenes :
    /\ Switched /\ last.created = s /\ scenePath[s] \in DOMAIN SavedStates
    /\ \E k \in DOMAIN defaults : k \notin DOMAIN SavedStates[scenePath[s]]
    /\ \E k \in DOMAIN defaults :
         /\ k \in DOMAIN SavedStates[scenePath[s]]
         /\ SavedStates[scenePath[s]][k] # defaults[k]

\* C14 (as claimed): a switch writes an entry of the Saved State Table
\* when it deactivates an active scene, and writes none when the current
\* scene is missing or was deactivated by an earlier switch.
C14_SavedOncePerDeactivation ==
  Switched => (last.key # NotSaved <=> last.from # NoScene)

\* C15 (as claimed): right after the restart signal was handled the
\* scene's controller list is empty, however many controllers it held.
C15_NoControllerAfterRestart ==
  last.op = "xrAnimate" => Len(controllers[last.scene]) = 0

\* the places of a step in the most recent callback
At(step) == {i \in 1..Len(last.steps) : last.steps[i] = step}

C16_Order ==
  RanActiveCallback =>
    LET n == Len(last.steps)
        input == Cardinality(At("animate")) + 2 * Cardinality(At("sample"))
    IN \* animate first, unless paused
       /\ At("animate") = (IF pause[last.scene] THEN {} ELSE {1})
       \* then input sampling and its clamp, if controls are enabled
       /\ At("sample") = (IF controlsEnabled
                           THEN {Cardinality(At("animate")) + 1} ELSE {})
       /\ \A i \in At("sample") : i < n /\ last.steps[i + 1] = "clamp"
       \* then pose acquisition, then interaction dispatch
       /\ At("getViewerPose") \subseteq {input + 1}
       /\ At("handleInteractions") \subseteq {input + 2}
       /\ Did("handleInteractions") => Did("getViewerPose")

C16_PosedOnly ==
  RanActiveCallback =>
    LET n == Len(last.steps)
    IN \* dispatch and per-eye rendering exactly when a pose was obtained
       /\ Did("handleInteractions") <=> last.pose.kind = "pose"
       /\ (session /\ Did("render")) => last.pose.kind = "pose"
       /\ last.pose.kind = "pose" =>
            /\ Cardinality(At("render")) = last.pose.views
            /\ \A i \in At("render") : \A j \in At("handleInteractions") : j < i
            \* the request follows the last eye's render
            /\ last.steps[n] = "render" /\ last.request = "xr"
       /\ (last.op = "xrFrame" /\ last.request = "xr") =>
            (last.pose.kind = "pose" /\ last.steps[n] = "render")

\* C16: a callback of an active instance takes its steps in the order
\* animate (unless paused), input sampling and clamp (if controls are
\* enabled), pose acquisition, interaction dispatch, one render per eye;
\* dispatch and per-eye rendering happen exactly in the callbacks that
\* obtained a pose, and a callback run with an XR frame requests the next
\* one only at the end of a pass that rendered every eye.
C16_FixedStepOrder == C16_Order /\ C16_PosedOnly

\* C16 witness: an XR frame callback has run every step: animate, input,
\* pose, dispatch and a render for each of several eyes.
C16_Witness ==
  /\ last.op = "xrFrame" /\ last.wasActive
  /\ Did("animate") /\ Did("sample") /\ Did("handleInteractions")
  /\ Cardinality(At("render")) >= 2

\* C17 (as claimed): after every mouseup event that reached _onMouseUp no
\* object is selected and the button-pressed flag is false, and the event
\* made at most one release call.
C17_ReleaseClearsSelection ==
  last.op = "mouseup" =>
    /\ selected[last.scene] = 0
    /\ ~buttonPressed[last.scene]
    /\ Len(last.steps) <= 1

\* C18 (as claimed): _removeController(index) on any valid index of the
\* active scene's list does not throw, leaves neither the controller's mesh
\* nor its laser in the scene graph, has released the resources of both,
\* and leaves the list one shorter with the other entries in their order.
C18_RemoveReleasesAll ==
  \A s \in ActiveScenes : \A index \in 0..(Len(controllers[s]) - 1) :
    LET controller == controllers[s][index + 1]
        r == _removeController([controllers |-> controllers[s], graph |-> graph[s],
                                disposed |-> disposed[s], threw |-> FALSE], index)
    IN /\ ~r.threw
       /\ PartsOf(controller) \cap r.graph = {}
       /\ PartsOf(controller) \subseteq r.disposed
       /\ Len(r.controllers) = Len(controllers[s]) - 1
       /\ \A j \in 1..Len(r.controllers) :
            r.controllers[j] = controllers[s][IF j <= index THEN j ELSE j + 1]

C19_Raised ==
  RanActiveCallback =>
    /\ last.threw <=> last.pose.kind = "Error"
    /\ last.threw =>
         /\ ~Did("render") /\ ~Did("handleInteractions")
         /\ last.request = "none"

C19_HandleKept ==
  (last'.op = "xrFrame" /\ last'.threw) =>
    /\ frame' = frame
    /\ pendingFrames' \subseteq pendingFrames

\* C19: a callback of an active instance throws exactly when getViewerPose
\* raised something other than the DOMException; such a callback has
\* rendered nothing and dispatched nothing, has requested no frame, and
\* leaves this.frame as it was.
C19_OtherErrorsReraised ==
  /\ []C19_Raised
  /\ [][C19_HandleKept]_vars

\* C19 witness: an XR frame callback has thrown, and the instance still
\* stores the handle it stored before.
C19_Witness ==
  /\ last.op = "xrFrame" /\ last.wasActive /\ last.threw
  /\ last.pose.kind = "Error"
  /\ frame[last.scene] # NULL
  /\ PendingOf(last.scene) = {}

Axes == {"x", "y", "z"}
Within(v, box, a) == box.two[a] <= v[a] /\ v[a] <= box.one[a]
InBox(v, box) == \A a \in Axes : Within(v, box, a)

C20_Clamped ==
  /\ last.op = "testBounds" => InBox(position, bounds)
  /\ (RanActiveCallback /\ Did("sample")) => InBox(controlsPosition, bounds)
  /\ (RanActiveCallback /\ last.pose.kind = "pose") => InBox(position, bounds)

C20_Kept ==
  /\ last'.op = "testBounds" =>
       /\ bounds' = bounds
       /\ \A a \in Axes : Within(position, bounds, a) => position'[a] = position[a]
  /\ last'.op \in {"winFrame", "xrFrame"} =>
       /\ bounds' = bounds
       /\ \A a \in Axes : Within(controlsPosition, bounds, a) =>
                             controlsPosition'[a] = controlsPosition[a]

====
